---------------------------- MODULE Spec2Model ----------------------------
(***************************************************************************)
(* Model of rename_files.py: the filename sanitizer (sanitize_filename),   *)
(* the collision resolver (unique_target), the rename executor             *)
(* (rename_file) and the batch scheduler (process_directory).              *)
(*                                                                         *)
(* A file name is a sequence of characters, each character a one-element   *)
(* string; a character outside ASCII is written by its code point, such    *)
(* as "U+FF1F".                                                            *)
(***************************************************************************)
EXTENDS Naturals, Integers, Sequences, FiniteSets, TLC

VARIABLES
    san,            \* the sanitizer harness: input, policy, first and second result
    fs,             \* the directory: file name -> content (the name the file had at first)
    origin,         \* the directory before the first batch
    fs0,            \* the directory when the current batch started
    cfg,            \* the batch configuration: dry_run, backup, max_workers,
                    \* replacement, extensions
    stop_event,     \* the global cancellation flag
    collision_lock, \* the global lock: Free, or the task that holds it
    tasks,          \* submitted tasks (futures): path -> task record
    queue,          \* the executor's work queue: paths of tasks not yet started
    sched,          \* process_directory: position, scan state, counters
    faults          \* moves the filesystem has refused so far

vars == <<san, fs, origin, fs0, cfg, stop_event, collision_lock, tasks, queue, sched,
         faults>>

batchVars == <<fs, origin, fs0, cfg, stop_event, collision_lock, tasks, queue, sched,
              faults>>

---------------------------------------------------------------------------
(* Bounds *)

MaxNameLen == 3

\* files in the directory before the first batch
MaxFiles == 3

\* --threads, the size of the worker pool.  A pool runs every schedule of a
\* smaller pool too: a worker may stay idle while another runs its task.
MaxWorkers == 2

\* consecutive runs of process_directory on the same directory
MaxRuns == 2

\* moves that the filesystem refuses although the source exists
MaxFaults == 1

---------------------------------------------------------------------------
(* Sequence helpers *)

Max(a, b) == IF a > b THEN a ELSE b

Min(a, b) == IF a < b THEN a ELSE b

\* s[:n] of Python for 0 <= n
Take(s, n) == SubSeq(s, 1, Min(n, Len(s)))

\* s[n:] of Python for 0 <= n
Drop(s, n) == SubSeq(s, Min(n, Len(s)) + 1, Len(s))

\* s[:n] of Python for any integer n: a negative n counts from the end
SliceTo(s, n) == IF n >= 0 THEN Take(s, n) ELSE Take(s, Max(0, Len(s) + n))

\* s.rfind(c) + 1: the last position of c in s, 0 when there is none
RFind(s, c) ==
    LET hits == {i \in 1..Len(s) : s[i] = c}
    IN  IF hits = {} THEN 0 ELSE CHOOSE i \in hits : \A j \in hits : j <= i

\* s.find(c) + 1: the first position of c in s, 0 when there is none
Find(s, c) ==
    LET hits == {i \in 1..Len(s) : s[i] = c}
    IN  IF hits = {} THEN 0 ELSE CHOOSE i \in hits : \A j \in hits : i <= j

StartsWith(s, p) == Len(p) <= Len(s) /\ SubSeq(s, 1, Len(p)) = p

RECURSIVE LStrip(_, _)
\* s.lstrip(chars): drops leading characters that are in the set chars
LStrip(s, chars) ==
    IF s # <<>> /\ s[1] \in chars THEN LStrip(Tail(s), chars) ELSE s

RECURSIVE RStrip(_, _)
\* s.rstrip(chars)
RStrip(s, chars) ==
    IF s # <<>> /\ s[Len(s)] \in chars
    THEN RStrip(SubSeq(s, 1, Len(s) - 1), chars)
    ELSE s

\* s.strip(chars): chars is used as a set of characters
Strip(s, chars) == RStrip(LStrip(s, chars), chars)

CharsOf(s) == {s[i] : i \in 1..Len(s)}

\* all sequences over alphabet of length at most n
SeqsUpTo(alphabet, n) == UNION {[1..k -> alphabet] : k \in 0..n}

---------------------------------------------------------------------------
(* Characters *)

\* a default illegal set that also holds "!"
IllegalCharsWithBang == {"<", ">", ":", "\"", "/", "\\", "|", "?", "*", "!"}

DEFAULT_ILLEGAL_CHARS == {"<", ">", ":", "\"", "/", "\\", "|", "?", "*"}

\* the characters of the model for which str.isspace() is true
SpaceChars == {" ", "\t", "\n", "U+00A0"}

\* the characters of the model with ord(ch) < 32
ControlChars == {"\t", "\n", "U+0001"}

isspace(ch) == ch \in SpaceChars

\* unicodedata.normalize("NFKC", ch) for one character: the compatibility
\* forms of the model map to their ASCII counterparts, the rest is unchanged
NFKC1(ch) ==
    CASE ch = "U+FF1F" -> <<"?">>       \* FULLWIDTH QUESTION MARK
      [] ch = "U+00A0" -> <<" ">>       \* NO-BREAK SPACE
      [] ch = "U+FB01" -> <<"f", "i">>  \* LATIN SMALL LIGATURE FI
      [] OTHER -> <<ch>>

RECURSIVE normalize(_)
normalize(name) ==
    IF name = <<>> THEN <<>> ELSE NFKC1(name[1]) \o normalize(Tail(name))

LowerCase == <<"a", "b", "c", "d", "e", "f", "g", "h", "i", "j", "k", "l", "m",
               "n", "o", "p", "q", "r", "s", "t", "u", "v", "w", "x", "y", "z">>

UpperCase == <<"A", "B", "C", "D", "E", "F", "G", "H", "I", "J", "K", "L", "M",
               "N", "O", "P", "Q", "R", "S", "T", "U", "V", "W", "X", "Y", "Z">>

\* str.upper() on the ASCII letters
upper(s) ==
    [i \in 1..Len(s) |->
        IF \E k \in 1..26 : LowerCase[k] = s[i]
        THEN UpperCase[CHOOSE k \in 1..26 : LowerCase[k] = s[i]]
        ELSE s[i]]

\* str.lower() on the ASCII letters
lower(s) ==
    [i \in 1..Len(s) |->
        IF \E k \in 1..26 : UpperCase[k] = s[i]
        THEN LowerCase[CHOOSE k \in 1..26 : UpperCase[k] = s[i]]
        ELSE s[i]]

WINDOWS_RESERVED ==
    {<<"C", "O", "N">>, <<"P", "R", "N">>, <<"A", "U", "X">>, <<"N", "U", "L">>}
    \cup {<<"C", "O", "M", d>> : d \in {"1", "2", "3", "4", "5", "6", "7", "8", "9"}}
    \cup {<<"L", "P", "T", d>> : d \in {"1", "2", "3", "4", "5", "6", "7", "8", "9"}}

FallbackName == <<"u", "n", "n", "a", "m", "e", "d">>

DefaultMaxLength == 255

---------------------------------------------------------------------------
(* Sanitization: sanitize_filename *)

RECURSIVE ReplaceChars(_, _, _)
\* "".join(replacement if (ch in illegal or ch.isspace() or ord(ch) < 32) else ch)
ReplaceChars(name, replacement, illegal) ==
    IF name = <<>> THEN <<>>
    ELSE (IF name[1] \in illegal \/ isspace(name[1]) \/ name[1] \in ControlChars
          THEN replacement ELSE <<name[1]>>)
         \o ReplaceChars(Tail(name), replacement, illegal)

\* re.sub compiles the replacement as a template whenever it holds a
\* backslash: a backslash that ends the token is "bad escape (end of
\* pattern)".  The tokens of the model hold no backslash followed by a letter
\* or a digit (group references and letter escapes).
RECURSIVE TemplateOk(_)
TemplateOk(repl) ==
    IF repl = <<>> THEN TRUE
    ELSE IF repl[1] # "\\" THEN TemplateOk(Tail(repl))
    ELSE IF Len(repl) = 1 THEN FALSE
    ELSE TemplateOk(Drop(repl, 2))

\* the text the compiled template writes for each match: "\\\\" is one
\* backslash, a backslash before another non-alphanumeric character is kept
RECURSIVE TemplateText(_)
TemplateText(repl) ==
    IF repl = <<>> THEN <<>>
    ELSE IF repl[1] # "\\" THEN <<repl[1]>> \o TemplateText(Tail(repl))
    ELSE IF repl[2] = "\\" THEN <<"\\">> \o TemplateText(Drop(repl, 2))
    ELSE <<repl[1], repl[2]>> \o TemplateText(Drop(repl, 2))

\* the length of the match of the pattern re.escape(replacement) + "+" at the
\* start of s (0: no match): the token's characters but the last one, then
\* one or more of its last character, as many as there are (greedy)
MatchLen(s, replacement) ==
    LET k    == Len(replacement)
        last == replacement[k]
        run  == {m \in 1..(Len(s) - k + 1) :
                    \A j \in k..(k + m - 1) : s[j] = last}
    IN  IF StartsWith(s, replacement)
        THEN (k - 1) + (CHOOSE m \in run : \A m2 \in run : m2 <= m)
        ELSE 0

RECURSIVE Collapse(_, _)
\* re.sub(f"{re.escape(replacement)}+", replacement, result), replacement non-empty
Collapse(result, replacement) ==
    IF result = <<>> THEN <<>>
    ELSE LET n == MatchLen(result, replacement)
         IN  IF n > 0
             THEN TemplateText(replacement) \o Collapse(Drop(result, n), replacement)
             ELSE <<result[1]>> \o Collapse(Tail(result), replacement)

\* result.strip(replacement).rstrip(" .")
Trim(result, replacement) ==
    RStrip(Strip(result, CharsOf(replacement)), {" ", "."})

\* the name after replacement, collapsing and trimming (lines 84-99)
Trimmed(name, replacement, illegal) ==
    LET replaced  == ReplaceChars(normalize(name), replacement, illegal)
        collapsed == IF replacement # <<>> THEN Collapse(replaced, replacement)
                     ELSE replaced
    IN  Trim(collapsed, replacement)

\* result.split(".")[0]
SplitFirst(s, c) == IF Find(s, c) = 0 THEN s ELSE Take(s, Find(s, c) - 1)

\* os.name == "nt" and result.split(".")[0].upper() in WINDOWS_RESERVED
IsReserved(result, os_name) ==
    os_name = "nt" /\ upper(SplitFirst(result, ".")) \in WINDOWS_RESERVED

\* os.path.splitext(p): <<root, ext>>.  The extension starts at the last
\* dot, unless that dot is before the last separator or only dots lead to it.
splitext(p, os_name) ==
    LET sepIndex == IF os_name = "nt"
                    THEN Max(RFind(p, "\\"), RFind(p, "/"))
                    ELSE RFind(p, "/")
        dotIndex == RFind(p, ".")
    IN  IF dotIndex > sepIndex
           /\ \E i \in (sepIndex + 1)..(dotIndex - 1) : p[i] # "."
        THEN <<Take(p, dotIndex - 1), Drop(p, dotIndex - 1)>>
        ELSE <<p, <<>>>>

\* stem[:max_length - len(suffix)] + suffix
Truncate(result, max_length, os_name) ==
    LET parts   == splitext(result, os_name)
        allowed == max_length - Len(parts[2])
    IN  SliceTo(parts[1], allowed) \o parts[2]

\* sanitize_filename raises re.error (the template of a non-empty
\* replacement does not compile)
SanitizeRaises(replacement) == replacement # <<>> /\ ~TemplateOk(replacement)

\* the value sanitize_filename returns when it does not raise
sanitize_filename(name, replacement, illegal, max_length, os_name) ==
    LET trimmed  == Trimmed(name, replacement, illegal)
        named    == IF trimmed = <<>> THEN FallbackName ELSE trimmed
        guarded  == IF IsReserved(named, os_name) THEN <<"_">> \o named ELSE named
    IN  IF Len(guarded) > max_length
        THEN Truncate(guarded, max_length, os_name)
        ELSE guarded

---------------------------------------------------------------------------
(* The sanitizer applied to an input, and again to its own result *)

SanAlphabet == {"a", "_", ".", " ", "*", "U+FF1F"}

MyPhoto == <<"M", "y", " ", "P", "h", "o", "t", "o", "!", "!", ".", "J", "P", "G">>

SampleNames ==
    {MyPhoto, <<"c", "o", "n", ".", "t">>, <<"N", "U", "L">>,
     <<"U+FB01", "U+0001", "\t">>}

SanNames == SeqsUpTo(SanAlphabet, MaxNameLen) \cup SampleNames

\* replacement tokens: the default, the empty token, an illegal character, a
\* backslash (--replacement takes any string)
Replacements == {<<"_">>, <<>>, <<"*">>, <<"\\">>}

IllegalSets == {DEFAULT_ILLEGAL_CHARS, DEFAULT_ILLEGAL_CHARS \cup {"!"}}

MaxLengths == (0..MaxNameLen) \cup {DefaultMaxLength}

OsNames == {"posix", "nt"}

SanIdle ==
    [pc |-> "idle", name |-> <<>>, replacement |-> <<>>, illegal |-> {},
     max_length |-> 0, os_name |-> "posix", out1 |-> <<>>, out2 |-> <<>>]

BatchIdle ==
    /\ fs = <<>> /\ origin = <<>> /\ fs0 = <<>>
    /\ cfg = [dry_run |-> FALSE, backup |-> FALSE, max_workers |-> 0,
              replacement |-> <<>>, extensions |-> {}]
    /\ stop_event = FALSE
    /\ collision_lock = <<>>
    /\ tasks = <<>>
    /\ queue = <<>>
    /\ sched = [pc |-> "idle"]
    /\ faults = 0

SanInit ==
    /\ san \in [pc : {"input"}, name : SanNames, replacement : Replacements,
                illegal : IllegalSets, max_length : MaxLengths,
                os_name : OsNames, out1 : {<<>>}, out2 : {<<>>}]
    /\ BatchIdle

\* sanitize_filename(name, ...) with the policy of the state
SanApply(name) ==
    sanitize_filename(name, san.replacement, san.illegal, san.max_length,
                      san.os_name)

\* the first call: it raises, or returns out1
SanitizeOnce ==
    /\ san.pc = "input"
    /\ san' = IF SanitizeRaises(san.replacement)
              THEN [san EXCEPT !.pc = "raised"]
              ELSE [san EXCEPT !.pc = "once", !.out1 = SanApply(san.name)]
    /\ UNCHANGED batchVars

\* the second call, on the result of the first
SanitizeTwice ==
    /\ san.pc = "once"
    /\ san' = [san EXCEPT !.pc = "twice", !.out2 = SanApply(san.out1)]
    /\ UNCHANGED batchVars

SanNext == SanitizeOnce \/ SanitizeTwice

SpecSanitize == SanInit /\ [][SanNext]_vars

---------------------------------------------------------------------------
(* Paths: pathlib's name arithmetic on the final component *)

\* PurePath.suffix: the last dot and what follows, unless the dot is the
\* first or the last character of the name
suffix(name) ==
    LET i == RFind(name, ".")
    IN  IF 1 < i /\ i < Len(name) THEN Drop(name, i - 1) ELSE <<>>

\* PurePath.stem
stem(name) ==
    LET i == RFind(name, ".")
    IN  IF 1 < i /\ i < Len(name) THEN Take(name, i - 1) ELSE name

\* PurePath.with_suffix(new): the old suffix, if any, is replaced
with_suffix(name, new) ==
    IF suffix(name) = <<>> THEN name \o new
    ELSE Take(name, Len(name) - Len(suffix(name))) \o new

Digits == <<"0", "1", "2", "3", "4", "5", "6", "7", "8", "9">>

RECURSIVE Decimal(_)
\* str(index) for index >= 0
Decimal(n) ==
    IF n < 10 THEN <<Digits[n + 1]>>
    ELSE Decimal(n \div 10) \o <<Digits[(n % 10) + 1]>>

\* a candidate whose index follows the extension
CandidateAfterExtension(desired, index) ==
    desired \o <<"_">> \o Decimal(index)

\* parent / f"{stem}_{index}{suffix}" for the desired name
Candidate(desired, index) ==
    stem(desired) \o <<"_">> \o Decimal(index) \o suffix(desired)

\* the desired backup name: path.with_suffix(path.suffix + ".bak")
BackupName(name) == with_suffix(name, suffix(name) \o <<".", "b", "a", "k">>)

---------------------------------------------------------------------------
(* The directory *)

\* the entries of the model that are directories (the others are regular
\* files)
DirNames == {<<".", "a", "_", "1", ".", "b">>}

\* collect_files yields an entry that is no directory, whose name does not
\* start with "." and whose suffix, lowered (--case-sensitive is not given),
\* is in extensions when extensions is not empty (--recursive is not given:
\* what a directory holds is never scanned)
Eligible(name) ==
    /\ name \notin DirNames
    /\ name[1] # "."
    /\ cfg.extensions # {} => lower(suffix(name)) \in cfg.extensions

\* an existence check that sees only the entries the scanner yields
existsAmongYielded(dir, name) == name \in DOMAIN dir /\ Eligible(name)

\* Path.exists()
exists(dir, name) == name \in DOMAIN dir

\* os.replace(src, dst) on a directory that holds src: dst is created or
\* silently overwritten, src is gone
os_replace(dir, src, dst) ==
    [n \in (DOMAIN dir \ {src}) \cup {dst} |->
        IF n = dst THEN dir[src] ELSE dir[n]]

\* the ways a call os.replace(src, dst) may end: it raises when src is gone,
\* and the filesystem may refuse a move of an existing file (permission
\* denied, read-only filesystem); rename_file catches every Exception
ReplaceResults(dir, src) ==
    IF ~exists(dir, src) THEN {"gone"}
    ELSE IF faults < MaxFaults THEN {"ok", "refused"}
    ELSE {"ok"}

\* the count of refused moves after a call that ended as r
Faults(r) == IF r = "refused" THEN faults + 1 ELSE faults

---------------------------------------------------------------------------
(* The batch: process_directory, its worker pool and the signal handler *)

Free == <<>>

ReportTxt == <<"r", "e", "p", "o", "r", "t", ".", "t", "x", "t">>

Report1Txt == <<"r", "e", "p", "o", "r", "t", "_", "1", ".", "t", "x", "t">>

\* the names a directory may hold before the first batch: two that sanitize
\* to report.txt, report.txt itself, and one whose sanitized name is trimmed
\* again by a second sanitization
RawNames == {<<" ">> \o ReportTxt, ReportTxt \o <<" ">>, ReportTxt,
             <<"a", "_", ".">>}

\* a directory in which a file's backup path is taken by another file, and
\* that of a second file is the next candidate: " a.txt", " a.txt_1" and
\* " a.txt.bak"
BackupNames ==
    {<<" ", "a", ".", "t", "x", "t">>,
     <<" ", "a", ".", "t", "x", "t", "_", "1">>,
     <<" ", "a", ".", "t", "x", "t", ".", "b", "a", "k">>}

\* a directory in which the sanitized name of " .a.b" is the name of a hidden
\* file and its first candidate the name of a directory: " .a.b", ".a.b" and
\* the directory ".a_1.b"
HiddenNames ==
    {<<" ", ".", "a", ".", "b">>, <<".", "a", ".", "b">>,
     <<".", "a", "_", "1", ".", "b">>}

\* the directories of the model hold names of one of these families
Families == {RawNames, BackupNames, HiddenNames}

\* --replacement defaults to "_"
BatchReplacement == <<"_">>

\* --replacement takes any string: the default and a backslash
BatchReplacements == {BatchReplacement, <<"\\">>}

\* --file-types: not given, or txt
ExtensionSets == {{}, {<<".", "t", "x", "t">>}}

\* sanitize_filename(path.name, replacement=replacement): the default
\* illegal set and max_length
sanitize(name) ==
    sanitize_filename(name, cfg.replacement, DEFAULT_ILLEGAL_CHARS,
                      DefaultMaxLength, "posix")

NewTask ==
    [pc |-> "queued", new_name |-> <<>>, resolving |-> "none",
     desired |-> <<>>, candidate |-> <<>>, index |-> 0, target |-> <<>>,
     backup_path |-> <<>>, result |-> FALSE, outcome |-> "none"]

NewSched(run) ==
    [pc |-> "scan", seen |-> {}, collected |-> {}, renamed |-> 0,
     submitted |-> 0, run |-> run]

Init ==
    /\ san = SanIdle
    /\ \E F \in Families : \E S \in SUBSET F :
          /\ Cardinality(S) <= MaxFiles
          /\ fs = [n \in S |-> n]
    /\ origin = fs
    /\ fs0 = fs
    /\ cfg \in [dry_run : BOOLEAN, backup : BOOLEAN, max_workers : {MaxWorkers},
                replacement : BatchReplacements, extensions : ExtensionSets]
    /\ stop_event = FALSE
    /\ collision_lock = Free
    /\ tasks = <<>>
    /\ queue = <<>>
    /\ sched = NewSched(1)
    /\ faults = 0

Submitted == DOMAIN tasks

Running == {t \in Submitted : tasks[t].pc \notin {"queued", "done"}}

Finished == {t \in Submitted : tasks[t].pc = "done"}

\* rename_file returns: the future holds the value, the locals are gone
\* (outcome names the return statement taken)
Return(t, value, outcome) ==
    [tasks EXCEPT ![t] = [NewTask EXCEPT !.pc = "done", !.result = value,
                                         !.outcome = outcome]]

\* a call of unique_target(desired) starts
CallUniqueTarget(t, what, desired) ==
    [tasks EXCEPT ![t].pc = "acquire", ![t].resolving = what,
                  ![t].desired = desired, ![t].candidate = desired]

\* Begin without the unchanged check: the resolver is called whatever the
\* sanitized name is
BeginWithoutUnchangedCheck(t) ==
    /\ queue # <<>> /\ t = Head(queue)
    /\ Cardinality(Running) < cfg.max_workers
    /\ queue' = Tail(queue)
    /\ tasks' = IF stop_event THEN Return(t, FALSE, "cancelled")
                ELSE IF SanitizeRaises(cfg.replacement)
                THEN Return(t, FALSE, "raised")
                ELSE [CallUniqueTarget(t, "target", sanitize(t))
                        EXCEPT ![t].new_name = sanitize(t)]
    /\ UNCHANGED <<san, faults, fs, origin, fs0, cfg, stop_event, collision_lock, sched>>

\* A worker takes the oldest queued task and runs rename_file up to the call
\* of unique_target: the stop check, the sanitization (when it raises, the
\* exception ends the task and is kept in its future), the unchanged check
Begin(t) ==
    /\ queue # <<>> /\ t = Head(queue)
    /\ Cardinality(Running) < cfg.max_workers
    /\ queue' = Tail(queue)
    /\ tasks' = IF stop_event THEN Return(t, FALSE, "cancelled")
                ELSE IF SanitizeRaises(cfg.replacement)
                THEN Return(t, FALSE, "raised")
                ELSE IF sanitize(t) = t THEN Return(t, FALSE, "unchanged")
                ELSE [CallUniqueTarget(t, "target", sanitize(t))
                        EXCEPT ![t].new_name = sanitize(t)]
    /\ UNCHANGED <<san, faults, fs, origin, fs0, cfg, stop_event, collision_lock, sched>>

\* unique_target: with collision_lock: index = 1
Acquire(t) ==
    /\ t \in Submitted /\ tasks[t].pc = "acquire"
    /\ collision_lock = Free
    /\ collision_lock' = t
    /\ tasks' = [tasks EXCEPT ![t].pc = "probe", ![t].index = 1]
    /\ UNCHANGED <<san, faults, fs, origin, fs0, cfg, stop_event, queue, sched>>

\* Probe that returns the candidate without leaving the with block
ProbeKeepingLock(t) ==
    /\ t \in Submitted /\ tasks[t].pc = "probe"
    /\ tasks' = IF exists(fs, tasks[t].candidate)
                THEN [tasks EXCEPT
                        ![t].candidate = Candidate(tasks[t].desired, tasks[t].index),
                        ![t].index = tasks[t].index + 1]
                ELSE IF tasks[t].resolving = "target"
                THEN [tasks EXCEPT ![t].pc = "resolved",
                                   ![t].target = tasks[t].candidate]
                ELSE [tasks EXCEPT ![t].pc = "backup",
                                   ![t].backup_path = tasks[t].candidate]
    /\ UNCHANGED <<san, faults, fs, origin, fs0, cfg, stop_event, collision_lock,
                   queue, sched>>

\* unique_target: one evaluation of the loop condition candidate.exists();
\* when the candidate does not exist the lock is released and the candidate
\* returned
Probe(t) ==
    /\ t \in Submitted /\ tasks[t].pc = "probe"
    /\ IF exists(fs, tasks[t].candidate)
       THEN /\ tasks' = [tasks EXCEPT
                           ![t].candidate = Candidate(tasks[t].desired, tasks[t].index),
                           ![t].index = tasks[t].index + 1]
            /\ UNCHANGED collision_lock
       ELSE /\ collision_lock' = Free
            /\ tasks' = IF tasks[t].resolving = "target"
                        THEN [tasks EXCEPT ![t].pc = "resolved",
                                           ![t].target = tasks[t].candidate]
                        ELSE [tasks EXCEPT ![t].pc = "backup",
                                           ![t].backup_path = tasks[t].candidate]
    /\ UNCHANGED <<san, faults, fs, origin, fs0, cfg, stop_event, queue, sched>>

\* Commit without the dry-run return: the move is made whatever dry_run is
CommitIgnoringDryRun(t) ==
    /\ t \in Submitted /\ tasks[t].pc = "resolved"
    /\ IF cfg.backup
       THEN tasks' = CallUniqueTarget(t, "backup", BackupName(t))
            /\ UNCHANGED <<fs, faults>>
       ELSE \E r \in ReplaceResults(fs, t) :
               /\ faults' = Faults(r)
               /\ IF r = "ok"
                  THEN /\ fs' = os_replace(fs, t, tasks[t].target)
                       /\ tasks' = Return(t, TRUE, "renamed")
                  ELSE tasks' = Return(t, FALSE, "failed") /\ UNCHANGED fs
    /\ UNCHANGED <<san, origin, fs0, cfg, stop_event, collision_lock, queue, sched>>

\* rename_file after the target is resolved: the dry-run return, the call of
\* unique_target for the backup path, or the direct os.replace(path, target)
Commit(t) ==
    /\ t \in Submitted /\ tasks[t].pc = "resolved"
    /\ IF cfg.dry_run
       THEN tasks' = Return(t, TRUE, "renamed") /\ UNCHANGED <<fs, faults>>
       ELSE IF cfg.backup
       THEN tasks' = CallUniqueTarget(t, "backup", BackupName(t))
            /\ UNCHANGED <<fs, faults>>
       ELSE \E r \in ReplaceResults(fs, t) :
               /\ faults' = Faults(r)
               /\ IF r = "ok"
                  THEN /\ fs' = os_replace(fs, t, tasks[t].target)
                       /\ tasks' = Return(t, TRUE, "renamed")
                  ELSE tasks' = Return(t, FALSE, "failed") /\ UNCHANGED fs
    /\ UNCHANGED <<san, origin, fs0, cfg, stop_event, collision_lock, queue, sched>>

\* backup mode: os.replace(path, backup_path)
MoveToBackup(t) ==
    /\ t \in Submitted /\ tasks[t].pc = "backup"
    /\ \E r \in ReplaceResults(fs, t) :
          /\ faults' = Faults(r)
          /\ IF r = "ok"
             THEN /\ fs' = os_replace(fs, t, tasks[t].backup_path)
                  /\ tasks' = [tasks EXCEPT ![t].pc = "restore"]
             ELSE tasks' = Return(t, FALSE, "failed") /\ UNCHANGED fs
    /\ UNCHANGED <<san, origin, fs0, cfg, stop_event, collision_lock, queue, sched>>

\* MoveToTarget with a stop check between the two moves of backup mode
MoveToTargetUnlessStopped(t) ==
    /\ t \in Submitted /\ tasks[t].pc = "restore"
    /\ IF stop_event
       THEN tasks' = Return(t, FALSE, "cancelled") /\ UNCHANGED <<fs, faults>>
       ELSE \E r \in ReplaceResults(fs, tasks[t].backup_path) :
               /\ faults' = Faults(r)
               /\ IF r = "ok"
                  THEN /\ fs' = os_replace(fs, tasks[t].backup_path, tasks[t].target)
                       /\ tasks' = Return(t, TRUE, "renamed")
                  ELSE tasks' = Return(t, FALSE, "failed") /\ UNCHANGED fs
    /\ UNCHANGED <<san, origin, fs0, cfg, stop_event, collision_lock, queue, sched>>

\* backup mode: os.replace(backup_path, target)
MoveToTarget(t) ==
    /\ t \in Submitted /\ tasks[t].pc = "restore"
    /\ \E r \in ReplaceResults(fs, tasks[t].backup_path) :
          /\ faults' = Faults(r)
          /\ IF r = "ok"
             THEN /\ fs' = os_replace(fs, tasks[t].backup_path, tasks[t].target)
                  /\ tasks' = Return(t, TRUE, "renamed")
             ELSE tasks' = Return(t, FALSE, "failed") /\ UNCHANGED fs
    /\ UNCHANGED <<san, origin, fs0, cfg, stop_event, collision_lock, queue, sched>>

\* what os.scandir may still yield.  The entries are read from the directory
\* in one buffer when the iteration begins, before any task is submitted (a
\* directory of the model is far smaller than that buffer), so the scan
\* yields the files the directory held when the batch started, each once.
ScanCandidates == {n \in DOMAIN fs0 : Eligible(n)} \ sched.seen

\* Submit without the break: the file is submitted whatever stop_event is
SubmitIgnoringStop(n) ==
    /\ sched.pc = "scan"
    /\ n \in ScanCandidates
    /\ sched' = [sched EXCEPT !.seen = @ \cup {n}, !.submitted = @ + 1]
    /\ tasks' = (n :> NewTask) @@ tasks
    /\ queue' = Append(queue, n)
    /\ UNCHANGED <<san, faults, fs, origin, fs0, cfg, stop_event, collision_lock>>

\* process_directory's scan loop: collect_files yields the next file; the
\* loop breaks when stop_event is set, and submits rename_file otherwise
Submit(n) ==
    /\ sched.pc = "scan"
    /\ n \in ScanCandidates
    /\ IF stop_event
       THEN /\ sched' = [sched EXCEPT !.pc = "collect", !.seen = @ \cup {n}]
            /\ UNCHANGED <<tasks, queue>>
       ELSE /\ sched' = [sched EXCEPT !.seen = @ \cup {n}, !.submitted = @ + 1]
            /\ tasks' = (n :> NewTask) @@ tasks
            /\ queue' = Append(queue, n)
    /\ UNCHANGED <<san, faults, fs, origin, fs0, cfg, stop_event, collision_lock>>

\* collect_files is exhausted
ScanEnd ==
    /\ sched.pc = "scan"
    /\ ScanCandidates = {}
    /\ sched' = [sched EXCEPT !.pc = "collect"]
    /\ UNCHANGED <<san, faults, fs, origin, fs0, cfg, stop_event, collision_lock, tasks, queue>>

\* one iteration of the as_completed loop on a finished future: the break
\* when stop_event is set; future.result() raises the exception that ended
\* the task, which leaves the with block; the count otherwise
Collect(t) ==
    /\ sched.pc = "collect"
    /\ t \in Finished \ sched.collected
    /\ sched' = IF stop_event THEN [sched EXCEPT !.pc = "shutdown"]
                ELSE IF tasks[t].outcome = "raised"
                THEN [sched EXCEPT !.pc = "unwind"]
                ELSE [sched EXCEPT !.collected = @ \cup {t},
                                   !.renamed = IF tasks[t].result THEN @ + 1 ELSE @]
    /\ UNCHANGED <<san, faults, fs, origin, fs0, cfg, stop_event, collision_lock, tasks, queue>>

\* as_completed has yielded every future
CollectEnd ==
    /\ sched.pc = "collect"
    /\ sched.collected = Submitted
    /\ sched' = [sched EXCEPT !.pc = "shutdown"]
    /\ UNCHANGED <<san, faults, fs, origin, fs0, cfg, stop_event, collision_lock, tasks, queue>>

\* the end of the with block waits for every submitted task; then the
\* summary (submitted, renamed) is logged, unless an exception left the
\* block: that one ends process_directory, main logs "Fatal error" and exits
Shutdown ==
    /\ sched.pc \in {"shutdown", "unwind"}
    /\ Finished = Submitted
    /\ sched' = [sched EXCEPT !.pc = IF sched.pc = "unwind" THEN "fatal"
                                     ELSE "done"]
    /\ UNCHANGED <<san, faults, fs, origin, fs0, cfg, stop_event, collision_lock, tasks, queue>>

\* SIGINT or SIGTERM arrives while the batch runs
Signal ==
    /\ sched.pc \in {"scan", "collect", "shutdown", "unwind"}
    /\ ~stop_event
    /\ stop_event' = TRUE
    /\ UNCHANGED <<san, faults, fs, origin, fs0, cfg, collision_lock, tasks, queue, sched>>

\* the program is run again, with the same configuration, on the directory
\* left by a batch that was not cancelled
Rerun ==
    /\ sched.pc = "done"
    /\ ~stop_event
    /\ sched.run < MaxRuns
    /\ sched' = NewSched(sched.run + 1)
    /\ fs0' = fs
    /\ stop_event' = FALSE
    /\ tasks' = <<>>
    /\ queue' = <<>>
    /\ UNCHANGED <<san, faults, fs, origin, cfg, collision_lock>>

\* the final log line: "Done - Total: {submitted}, Renamed: {renamed}"
Summary == [Total |-> sched.submitted, Renamed |-> sched.renamed]

Next ==
    \/ \E t \in Submitted : Begin(t)
    \/ \E t \in Submitted : Acquire(t)
    \/ \E t \in Submitted : Probe(t)
    \/ \E t \in Submitted : Commit(t)
    \/ \E t \in Submitted : MoveToBackup(t)
    \/ \E t \in Submitted : MoveToTarget(t)
    \/ \E n \in DOMAIN fs0 : Submit(n)
    \/ ScanEnd
    \/ \E t \in Submitted : Collect(t)
    \/ CollectEnd
    \/ Shutdown
    \/ Signal
    \/ Rerun

Spec == Init /\ [][Next]_vars

---------------------------------------------------------------------------
(* Properties of the batch (specification Spec) *)

\* the tasks that hold a target handed out by unique_target and have not
\* returned yet
InFlight == {t \in Submitted : tasks[t].target # <<>>}

\* the tasks whose rename_file returned True
Renamed == {t \in Submitted : tasks[t].result}

\* C1: no two calls of unique_target that are in flight at the same time are
\* handed the same final path (the workers rename for real: no dry run).
C1_NoSharedTarget ==
    ~cfg.dry_run =>
        \A t1, t2 \in InFlight : t1 # t2 => tasks[t1].target # tasks[t2].target

\* C2: without backup and without dry run, in every state every file of the
\* start of the batch is still in the directory with its content, under some
\* name, and the number of files is the number at the start.
C2_NoFileLost ==
    (~cfg.dry_run /\ ~cfg.backup /\ faults = 0) =>
        /\ \A n \in DOMAIN origin : \E m \in DOMAIN fs : fs[m] = n
        /\ Cardinality(DOMAIN fs) = Cardinality(DOMAIN origin)

\* C3 (k = 2): two files that both sanitize to report.txt, nothing else in
\* the directory: after a completed batch that is no dry run, in which the
\* filesystem refused no move, the directory holds exactly report.txt and
\* report_1.txt.
C3_ScenarioB ==
    (/\ DOMAIN origin = {<<" ">> \o ReportTxt, ReportTxt \o <<" ">>}
     /\ ~cfg.dry_run /\ faults = 0
     /\ sched.run = 1 /\ sched.pc = "done" /\ ~stop_event)
    => DOMAIN fs = {ReportTxt, Report1Txt}

\* C4: in dry-run mode, with or without backup, the directory (names and
\* contents) is in every state what it was before the batch.
C4_DryRunFrame == cfg.dry_run => fs = origin

\* C4 witness: a dry run with the backup flag in which a task of a file whose
\* name changes has returned True and the summary counts it
C4_Witness ==
    /\ cfg.dry_run /\ cfg.backup
    /\ sched.pc = "done" /\ sched.renamed >= 2
    /\ \E t \in Submitted : tasks[t].outcome = "renamed"

\* C9: the second of two runs (no dry run, the first run completed and the
\* filesystem refused no move) renames nothing: no task of the second run is
\* renamed, each ends unchanged unless cancelled, and the summary's renamed
\* count stays 0.
C9_SecondPassRenamesNothing ==
    (sched.run = 2 /\ ~cfg.dry_run /\ faults = 0) =>
        /\ sched.renamed = 0
        /\ \A t \in Finished :
              /\ tasks[t].outcome # "renamed"
              /\ ~stop_event => tasks[t].outcome = "unchanged"

\* C10: when the batch was cancelled, the renamed count of the final summary
\* is the number of files renamed on disk by the batch (no dry run: a task
\* returns True exactly when its move was made).
C10_SummaryMatchesDisk ==
    (sched.pc = "done" /\ stop_event /\ ~cfg.dry_run /\ faults = 0) =>
        sched.renamed = Cardinality(Renamed)

\* the tasks that returned from the except branch
Failed == {t \in Submitted : tasks[t].outcome = "failed"}

\* the tasks that returned without a move and without an error
Skipped == {t \in Submitted : tasks[t].outcome \in {"unchanged", "cancelled"}}

\* process_directory has ended
Ended == sched.pc \in {"done", "fatal"}

\* C11: cancellation never interrupts a rename: a task that has passed its
\* stop check never returns as cancelled, it ends by its move or by the error
\* of a move, also between the two moves of backup mode; a task that starts
\* when the flag is set returns without a change of the directory; and
\* process_directory does not end before every submitted task has finished.
C11_NoInterruptedRename ==
    /\ [](Ended => Finished = Submitted)
    /\ [][\A t \in Submitted \cap DOMAIN tasks' :
             /\ (stop_event /\ tasks[t].pc = "queued" /\ tasks'[t].pc # "queued")
                   => (tasks'[t].outcome = "cancelled" /\ fs' = fs)
             /\ (t \in Running /\ tasks'[t].pc = "done")
                   => tasks'[t].outcome \in {"renamed", "failed"}
             /\ (t \in Running /\ tasks[t].pc = "restore" /\ tasks'[t] # tasks[t])
                   => \/ tasks'[t].outcome = "renamed" /\ exists(fs', tasks[t].target)
                      \/ tasks'[t].outcome = "failed" /\ fs' = fs]_vars

\* C11 witness: the flag is set, a task that started under the flag has
\* returned as cancelled, and a task that started before it stands between
\* the two moves of backup mode
C11_Witness ==
    /\ stop_event /\ cfg.backup
    /\ \E t, u \in Submitted :
          /\ tasks[t].pc = "restore"
          /\ tasks[u].outcome = "cancelled"

\* C12: backup mode, the move to the backup path was made and the move from
\* the backup path to the target fails: the task ends failed, the file is not
\* at its original path, it is at the backup path with its content, and the
\* directory is left as it is (no rollback).
C12_BackupKept ==
    [][\A t \in Submitted \cap DOMAIN tasks' :
          (tasks[t].pc = "restore" /\ tasks'[t].pc = "done"
              /\ tasks'[t].outcome # "renamed")
          => /\ tasks'[t].outcome = "failed"
             /\ fs' = fs
             /\ ~(exists(fs', t) /\ fs'[t] = fs0[t])
             /\ exists(fs', tasks[t].backup_path)
             /\ fs'[tasks[t].backup_path] = fs0[t]]_vars

\* C13: when the resolved target exists at the moment a task makes its move
\* onto it, the task ends failed and the directory (the file at the target
\* included) is left as it is.
C13_LateCollisionFails ==
    [][\A t \in Submitted \cap DOMAIN tasks' :
          (/\ ~cfg.dry_run
           /\ \/ tasks[t].pc = "resolved" /\ ~cfg.backup
              \/ tasks[t].pc = "restore"
           /\ exists(fs, tasks[t].target)
           /\ tasks'[t].pc = "done")
          => (tasks'[t].outcome = "failed" /\ fs' = fs)]_vars

\* C14: the summary of a batch that was not cancelled accounts for every
\* file: when a move raised, the summary holds a failure count, and its total
\* is renamed + skipped + failed.
C14_CompleteAccounting ==
    (sched.pc = "done" /\ ~stop_event) =>
        /\ Failed # {} => "Failed" \in DOMAIN Summary
        /\ Summary.Total = Summary.Renamed + Cardinality(Skipped) + Cardinality(Failed)

\* C15: a task whose name is its sanitized name ends, at the step in which
\* it starts, as unchanged, and that step leaves the directory and the lock
\* as they are; in every state a task inside unique_target (an existence
\* check) or before a move has a sanitized name other than its name, and the
\* file of a task that ended unchanged is in the directory with its content.
C15_UnchangedSkipped ==
    /\ [](\A t \in Submitted :
             /\ tasks[t].pc \notin {"queued", "done"} => tasks[t].new_name # t
             /\ tasks[t].outcome = "unchanged" =>
                   (t \in DOMAIN fs /\ fs[t] = fs0[t]))
    /\ [][\A t \in Submitted \cap DOMAIN tasks' :
             (/\ tasks[t].pc = "queued" /\ tasks'[t].pc # "queued"
              /\ ~stop_event /\ ~SanitizeRaises(cfg.replacement)
              /\ sanitize(t) = t)
             => /\ tasks'[t].pc = "done"
                /\ tasks'[t].outcome = "unchanged"
                /\ fs' = fs
                /\ collision_lock' = collision_lock]_vars

\* C15 witness: a task of a file whose name is its sanitized name has ended
\* unchanged in a batch that renamed another file
C15_Witness ==
    /\ ~cfg.dry_run /\ ~SanitizeRaises(cfg.replacement)
    /\ \E t, u \in Submitted :
          /\ sanitize(t) = t /\ tasks[t].outcome = "unchanged"
          /\ tasks[u].outcome = "renamed"

\* C16 as claimed: no worker is about to make a filesystem call (an existence
\* check, a move) while it holds the collision lock.
C16_NoSyscallUnderLock ==
    \A t \in Submitted :
        tasks[t].pc \in {"probe", "resolved", "backup", "restore"}
            => collision_lock # t

\* C16 amended: the lock is held exactly by a worker that is probing
\* candidates for existence; no worker holds it when it makes a move.
C16_LockOnlyWhileProbing ==
    /\ collision_lock # Free =>
          /\ collision_lock \in Submitted
          /\ tasks[collision_lock].pc = "probe"
    /\ \A t \in Submitted : tasks[t].pc = "probe" => collision_lock = t

\* C16 witness: a worker holds the lock after an existence check that found
\* its candidate, while another worker stands before a move of backup mode
C16_Witness ==
    \E t, u \in Submitted :
        /\ collision_lock = t /\ tasks[t].index > 1
        /\ tasks[u].pc \in {"backup", "restore"}

\* stem_k + extension
NumberedName(desired, k) ==
    stem(desired) \o <<"_">> \o Decimal(k) \o suffix(desired)

\* no other task of the batch has changed the directory or can have changed
\* it since the batch started
Quiet(t) ==
    \A u \in Submitted \ {t} :
        \/ tasks[u].pc = "queued"
        \/ tasks[u].outcome \in {"unchanged", "cancelled", "raised"}

\* C17: with no concurrent activity, unique_target returns the desired path
\* when it is not in the directory, and otherwise stem_k + extension for the
\* smallest k >= 1 for which that path is not in the directory.
C17_SmallestFreeCandidate ==
    [][\A t \in Submitted \cap DOMAIN tasks' :
          (tasks[t].pc = "probe" /\ Quiet(t)
              /\ tasks'[t].pc \in {"resolved", "backup"})
          => LET d == tasks[t].desired
                 r == tasks[t].candidate
             IN  IF d \notin DOMAIN fs THEN r = d
                 ELSE \E k \in 1..(Cardinality(DOMAIN fs) + 1) :
                         /\ r = NumberedName(d, k)
                         /\ r \notin DOMAIN fs
                         /\ \A j \in 1..(k - 1) :
                               NumberedName(d, j) \in DOMAIN fs]_vars

\* C17 witness: with no concurrent activity a task was handed stem_2 +
\* extension: the desired path and stem_1 + extension are in the directory
C17_Witness ==
    \E t \in Submitted :
        /\ tasks[t].pc = "resolved" /\ Quiet(t)
        /\ tasks[t].new_name \in DOMAIN fs
        /\ tasks[t].target = NumberedName(tasks[t].new_name, 2)

\* C18: when process_directory has ended, the summary has been logged, every
\* submitted task has finished and the lock is free.
C18_EndsWithSummary ==
    Ended => (sched.pc = "done" /\ Finished = Submitted /\ collision_lock = Free)

C20_NotYieldedUntouched ==
    \A n \in DOMAIN origin :
        ~Eligible(n) => (n \in DOMAIN fs /\ fs[n] = origin[n])

\* C20 witness: a file was renamed whose sanitized name is the name of an
\* entry that the scanner does not yield
C20_Witness ==
    /\ ~cfg.dry_run /\ ~SanitizeRaises(cfg.replacement)
    /\ \E t \in Submitted :
          /\ tasks[t].outcome = "renamed"
          /\ sanitize(t) \in DOMAIN origin
          /\ ~Eligible(sanitize(t))

---------------------------------------------------------------------------
(* Properties of the sanitizer (specification SpecSanitize) *)

Returned == san.pc \in {"once", "twice"}

\* the default policy: replacement "_", the default illegal set and length
DefaultPolicy ==
    /\ san.replacement = <<"_">>
    /\ san.illegal = DEFAULT_ILLEGAL_CHARS
    /\ san.max_length = DefaultMaxLength

\* C5: sanitize(sanitize(s, p), p) = sanitize(s, p); stated for the default
\* policy p, which the claim covers.
C5_Idempotent == (san.pc = "twice" /\ DefaultPolicy) => san.out2 = san.out1

\* C6: the result holds no character of the policy's illegal set, no
\* whitespace and no control character, for every replacement token; stated
\* for the default illegal set and maximum length.
C6_NoIllegalChar ==
    (Returned /\ san.illegal = DEFAULT_ILLEGAL_CHARS
              /\ san.max_length = DefaultMaxLength) =>
        \A ch \in CharsOf(san.out1) :
            ch \notin san.illegal /\ ~isspace(ch) /\ ch \notin ControlChars

\* C7: sanitize raises no error and its result is not empty; when the
\* trimmed result is empty the result is the fallback name "unnamed".  Stated
\* for the default maximum length.
C7_NeverEmptyNoError ==
    (san.pc # "input" /\ san.max_length = DefaultMaxLength) =>
        /\ san.pc # "raised"
        /\ san.out1 # <<>>
        /\ Trimmed(san.name, san.replacement, san.illegal) = <<>>
              => san.out1 = FallbackName

\* the input of scenario A has been sanitized with the default policy
C8_Witness == san.pc = "once" /\ san.name = MyPhoto /\ DefaultPolicy

\* C8 as claimed: the default policy maps "My Photo!!.JPG" to "My_Photo.JPG".
C8_ScenarioA_Claimed ==
    C8_Witness =>
        san.out1 = <<"M", "y", "_", "P", "h", "o", "t", "o", ".", "J", "P", "G">>

\* C8 amended: the default policy maps "My Photo!!.JPG" to "My_Photo!!.JPG"
\* ("!" is not in the default illegal set: only the space is replaced).
C8_ScenarioA ==
    C8_Witness =>
        san.out1 = <<"M", "y", "_", "P", "h", "o", "t", "o", "!", "!", ".",
                     "J", "P", "G">>

=============================================================================
